---- MODULE Spec2Model ----
(***************************************************************************)
(* Model of backend/game/urls.py: the route table `urlpatterns` of the     *)
(* game application and the two operations the URL dispatcher performs on  *)
(* it, resolving a request path to a view and reversing a route name to a  *)
(* path.                                                                   *)
(*                                                                         *)
(* A path is a sequence of one-character strings, so that a literal match  *)
(* is distinguishable from a prefix match or a case-insensitive one.  The  *)
(* paths are the ones the dispatcher presents to this table, i.e. what is  *)
(* left of the request path once the leading "/" and the prefix under      *)
(* which the table is included have been consumed.                         *)
(***************************************************************************)
EXTENDS Naturals, Sequences, FiniteSets

VARIABLES table, request, response, calls, nreq

vars == <<table, request, response, calls, nreq>>

(* Number of operations (requests and reverse lookups) of a run. *)
MaxRequests == 3

(***************************************************************************)
(* The literals of urls.py.                                                *)
(***************************************************************************)
board == <<"b", "o", "a", "r", "d">>
bingo == <<"b", "i", "n", "g", "o">>

board_view == "board_view"
bingo_view == "bingo_view"

(* path(route, view, name=...): one entry of the route table. *)
path(route, view, name) == [route |-> route, view |-> view, name |-> name]

(* Slips in the table that the properties below must detect. *)
urlpatterns_swapped_views ==
    << path(board, bingo_view, "board"),
       path(bingo, board_view, "bingo") >>

urlpatterns_same_route ==
    << path(board, board_view, "board"),
       path(board, bingo_view, "bingo") >>

urlpatterns_swapped_names ==
    << path(board, board_view, "bingo"),
       path(bingo, bingo_view, "board") >>

urlpatterns_same_name ==
    << path(board, board_view, "board"),
       path(bingo, bingo_view, "board") >>

urlpatterns_misspelt ==
    << path(board, board_view, "board"),
       path(bingo \o <<"o">>, bingo_view, "bingo") >>

urlpatterns ==
    << path(board, board_view, "board"),
       path(bingo, bingo_view, "bingo") >>

(***************************************************************************)
(* Inputs.                                                                 *)
(***************************************************************************)
Methods == {"GET", "POST", "PUT"}

Alphabet == {"/", "s", "1", "b"}

Literals == {board, bingo}

RequestPaths ==
    Literals
    \cup {SubSeq(l, 1, k) : l \in Literals, k \in 0..4}
    \cup {l \o <<c>> : l \in Literals, c \in Alphabet}
    \cup {<<c>> \o l : l \in Literals, c \in Alphabet}
    \cup { <<"B", "o", "a", "r", "d">>, <<"B", "i", "n", "g", "o">>,
           bingo \o <<"/", "1">>, board \o <<"/", "1">> }

ReverseNames == {"board", "bingo", "index"}

(***************************************************************************)
(* The dispatcher's reading of the table.                                  *)
(***************************************************************************)
IsPrefix(s, t) == Len(s) <= Len(t) /\ SubSeq(t, 1, Len(s)) = s

(* A route written with the method of its comment enforced in the table. *)
RouteMatchesMethod(r, method, p) ==
    /\ p = r.route
    /\ method = (IF r.name = "board" THEN "GET" ELSE "POST")

(* A route matched as a prefix of the path instead of the whole path. *)
RouteMatchesPrefix(r, method, p) == IsPrefix(r.route, p)

(* A route declared with path() and no converter matches exactly the path  *)
(* equal to its literal; path() takes no method, so the request method     *)
(* plays no part.                                                          *)
RouteMatches(r, method, p) == p = r.route

NoMatch == [matched |-> FALSE, func |-> "", url_name |-> ""]

(* The entries of the list are tried in order and the first match wins. *)
resolve(tbl, method, p) ==
    LET hits == {i \in 1..Len(tbl) : RouteMatches(tbl[i], method, p)}
    IN  IF hits = {}
        THEN NoMatch
        ELSE LET i == CHOOSE k \in hits : \A j \in hits : k <= j
             IN  [matched |-> TRUE, func |-> tbl[i].view, url_name |-> tbl[i].name]

NoReverseMatch == [found |-> FALSE, url |-> <<>>]

(* The dispatcher indexes the names from the end of the list, so that of   *)
(* two entries with one name the later one answers.                        *)
reverse(tbl, name) ==
    LET hits == {i \in 1..Len(tbl) : tbl[i].name = name}
    IN  IF hits = {}
        THEN NoReverseMatch
        ELSE LET i == CHOOSE k \in hits : \A j \in hits : k >= j
             IN  [found |-> TRUE, url |-> tbl[i].route]

ReverseSeq(s) == [i \in 1..Len(s) |-> s[Len(s) + 1 - i]]

(***************************************************************************)
(* State machine.                                                          *)
(*   table     the route table the dispatcher reads                        *)
(*   request   the operation last performed                                *)
(*   response  its outcome                                                 *)
(*   calls     the log of view invocations, each tagged with the number    *)
(*             of the request it served                                    *)
(*   nreq      the number of operations performed                          *)
(***************************************************************************)
NoRequest == [op |-> "none", method |-> "", path |-> <<>>, name |-> ""]

NoResponse == [status |-> "none", func |-> "", url_name |-> "", url |-> <<>>]

Init ==
    /\ table = urlpatterns
    /\ request = NoRequest
    /\ response = NoResponse
    /\ calls = <<>>
    /\ nreq = 0

(* A request that moves the route it matched to the front of the table. *)
RequestReordering(method, p) ==
    /\ nreq < MaxRequests
    /\ LET m == resolve(table, method, p)
           hit == CHOOSE i \in 1..Len(table) : table[i].view = m.func
       IN  /\ request' = [op |-> "resolve", method |-> method, path |-> p, name |-> ""]
           /\ response' = IF m.matched
                          THEN [status |-> "handled", func |-> m.func,
                                url_name |-> m.url_name, url |-> <<>>]
                          ELSE [status |-> "404", func |-> "",
                                url_name |-> "", url |-> <<>>]
           /\ calls' = IF m.matched
                       THEN Append(calls, [req |-> nreq + 1, func |-> m.func])
                       ELSE calls
           /\ table' = IF m.matched
                       THEN <<table[hit]>> \o
                            SelectSeq(table, LAMBDA r : r # table[hit])
                       ELSE table
    /\ nreq' = nreq + 1

(* A request for path p with the given method: the table is searched, the  *)
(* view of the first matching route is invoked once, and a path that       *)
(* matches no route gets the framework's not-found response.               *)
Request(method, p) ==
    /\ nreq < MaxRequests
    /\ LET m == resolve(table, method, p)
       IN  /\ request' = [op |-> "resolve", method |-> method, path |-> p, name |-> ""]
           /\ response' = IF m.matched
                          THEN [status |-> "handled", func |-> m.func,
                                url_name |-> m.url_name, url |-> <<>>]
                          ELSE [status |-> "404", func |-> "",
                                url_name |-> "", url |-> <<>>]
           /\ calls' = IF m.matched
                       THEN Append(calls, [req |-> nreq + 1, func |-> m.func])
                       ELSE calls
    /\ nreq' = nreq + 1
    /\ UNCHANGED table

(* A reverse lookup of a route name. *)
Reverse(name) ==
    /\ nreq < MaxRequests
    /\ LET r == reverse(table, name)
       IN  /\ request' = [op |-> "reverse", method |-> "", path |-> <<>>, name |-> name]
           /\ response' = IF r.found
                          THEN [status |-> "reversed", func |-> "",
                                url_name |-> name, url |-> r.url]
                          ELSE [status |-> "noreverse", func |-> "",
                                url_name |-> "", url |-> <<>>]
    /\ nreq' = nreq + 1
    /\ UNCHANGED <<table, calls>>

Next ==
    \/ \E method \in Methods, p \in RequestPaths : Request(method, p)
    \/ \E name \in ReverseNames : Reverse(name)

Spec == Init /\ [][Next]_vars

(* The views invoked to serve request number k. *)
InvokedFor(k) == {calls[i].func : i \in {j \in 1..Len(calls) : calls[j].req = k}}

Resolved(p) == request.op = "resolve" /\ request.path = p

(***************************************************************************)
(* Properties.                                                             *)
(***************************************************************************)

(* C1: a request whose path is the literal "board" is resolved to the view *)
(* board_view under the route name "board", and board_view is the only     *)
(* view invoked for it.                                                    *)
ResolveBoard ==
    Resolved(board) =>
        /\ response.status = "handled"
        /\ response.func = board_view
        /\ response.url_name = "board"
        /\ InvokedFor(nreq) = {board_view}

ResolveBoardWitness ==
    /\ Resolved(board)
    /\ request.method = "GET"
    /\ response.func = board_view
    /\ InvokedFor(nreq) = {board_view}

(* C2: a request whose path is the literal "bingo" is resolved to the view *)
(* bingo_view under the route name "bingo", and bingo_view is the only     *)
(* view invoked for it.                                                    *)
ResolveBingo ==
    Resolved(bingo) =>
        /\ response.status = "handled"
        /\ response.func = bingo_view
        /\ response.url_name = "bingo"
        /\ InvokedFor(nreq) = {bingo_view}

ResolveBingoWitness ==
    /\ Resolved(bingo)
    /\ request.method = "POST"
    /\ response.func = bingo_view
    /\ InvokedFor(nreq) = {bingo_view}

(* C3: no two distinct entries of the route table have the same path. *)
UniquePaths ==
    \A i, j \in 1..Len(table) : i # j => table[i].route # table[j].route

UniquePathsWitness ==
    /\ Len(table) = 2
    /\ table[1].route = board
    /\ table[2].route = bingo
    /\ nreq > 0

(* C4: the reverse lookup of the name "board" yields the path "board" and  *)
(* that of the name "bingo" yields the path "bingo".                       *)
ReverseByName ==
    /\ (request.op = "reverse" /\ request.name = "board") =>
           (response.status = "reversed" /\ response.url = board)
    /\ (request.op = "reverse" /\ request.name = "bingo") =>
           (response.status = "reversed" /\ response.url = bingo)

ReverseByNameWitness ==
    /\ request.op = "reverse"
    /\ request.name = "bingo"
    /\ response.status = "reversed"
    /\ response.url = bingo

(* C5: the table holds the triples of urlpatterns at startup and no        *)
(* request or reverse lookup, matched or not, changes it.                  *)
TableImmutable == (table = urlpatterns) /\ [][table' = table]_vars

TableImmutableWitness ==
    /\ nreq >= 3
    /\ Len(calls) >= 1
    /\ response.status \in {"404", "noreverse"}
    /\ table = urlpatterns

(* C6: the outcome of a request does not depend on its method: whatever    *)
(* method it was made with, resolving its path with any other method gives *)
(* the same match and the same view.                                       *)
MethodIndependent ==
    request.op = "resolve" =>
        \A method \in Methods :
            LET m == resolve(table, method, request.path)
            IN  /\ m.matched = (response.status = "handled")
                /\ m.func = response.func
                /\ m.url_name = response.url_name

MethodIndependentWitness ==
    \/ /\ Resolved(board)
       /\ request.method = "POST"
       /\ response.func = board_view
    \/ /\ Resolved(bingo)
       /\ request.method = "GET"
       /\ response.func = bingo_view

(* C7: the table has exactly two routes, and a request whose path is       *)
(* neither the literal "board" nor the literal "bingo" matches none: it    *)
(* gets the not-found response and no view is invoked for it.              *)
OnlyTwoRoutes ==
    /\ Len(table) = 2
    /\ (request.op = "resolve" /\ request.path \notin {board, bingo}) =>
           /\ response.status = "404"
           /\ response.func = ""
           /\ InvokedFor(nreq) = {}

OnlyTwoRoutesWitness ==
    /\ request.op = "resolve"
    /\ request.path \in {<<>>, board \o <<"/">>, <<"B", "o", "a", "r", "d">>,
                         board \o <<"s">>, bingo \o <<"/", "1">>}
    /\ response.status = "404"
    /\ Len(calls) >= 1

(* C8: route names are unique in the table, and resolve and reverse are    *)
(* inverse on the registered routes: resolving the path that reverse gives *)
(* for a registered name yields that name, and reversing the name that     *)
(* resolve gives for a registered path yields that path.                   *)
ResolveReverseInverse ==
    /\ \A i, j \in 1..Len(table) : i # j => table[i].name # table[j].name
    /\ \A i \in 1..Len(table), method \in Methods :
           /\ reverse(table, table[i].name).found
           /\ resolve(table, method, reverse(table, table[i].name).url).url_name
                  = table[i].name
           /\ resolve(table, method, table[i].route).matched
           /\ reverse(table, resolve(table, method, table[i].route).url_name).url
                  = table[i].route
    /\ response.status = "reversed" =>
           \A method \in Methods :
               resolve(table, method, response.url).url_name = request.name
    /\ response.status = "handled" =>
           reverse(table, response.url_name).url = request.path

ResolveReverseInverseWitness ==
    /\ response.status = "reversed"
    /\ request.name = "board"
    /\ response.url = board
    /\ resolve(table, "GET", response.url).url_name = "board"
    /\ reverse(table, resolve(table, "POST", bingo).url_name).url = bingo

(* C9: first-match resolution does not depend on the order of the entries: *)
(* the outcome of every request is the one that the table in the opposite  *)
(* order gives for the same path.                                          *)
OrderIndependent ==
    request.op = "resolve" =>
        LET m == resolve(ReverseSeq(table), request.method, request.path)
        IN  /\ m.matched = (response.status = "handled")
            /\ m.func = response.func
            /\ m.url_name = response.url_name

OrderIndependentWitness ==
    /\ Resolved(bingo)
    /\ response.func = bingo_view
    /\ ReverseSeq(table)[1].route = bingo
    /\ resolve(ReverseSeq(table), request.method, bingo).func = bingo_view

====
